---- MODULE Spec2Model ----
(***************************************************************************)
(* The rep-counting PhysiotherapyCoach component (src/unnamed/part_002,    *)
(* lines 996-1907) together with the exercise-recommendation route's       *)
(* validateAndCorrectExercise (src/app/global-error.tsx, lines 164-431).   *)
(*                                                                         *)
(* Units.  Landmark coordinates are integers on a grid of 0.05 of the      *)
(* normalised image (x, y in 0..20, y grows downwards); angles are in      *)
(* thousandths of a degree; movement scores are in thousandths; time is    *)
(* in milliseconds.  Strings that the code only ever tests with            *)
(* String.includes are sets of the substrings they contain.                *)
(***************************************************************************)
EXTENDS Integers, Sequences, FiniteSets, TLC

VARIABLES
  feedback,           \* useState feedback (message token)
  exerciseState,      \* useState exerciseState
  repCount,           \* useState repCount
  armAngle,           \* useState armAngle (rounded degrees)
  isCorrectForm,      \* useState isCorrectForm: "null" | "true" | "false"
  isMediaPipeLoaded,  \* useState isMediaPipeLoaded
  currentExercise,    \* useState currentExercise (NULL or an ExerciseData)
  detectedArm,        \* useState detectedArm
  exerciseStarted,    \* useState exerciseStarted
  repCounterRef,      \* useRef repCounterRef.current
  lastStateRef,       \* useRef lastStateRef.current
  hasReachedPeakRef,  \* useRef hasReachedPeakRef.current
  lastRepTimeRef,     \* useRef lastRepTimeRef.current
  closure,            \* what the mounted effect's callbacks captured
  now,                \* Date.now()
  userEvents,         \* number of user events handled so far
  frame,              \* the most recent pose result and what onResults did with it
  visit,              \* observer of peak visits (see Track)
  result,             \* the recommendation form's awaited API response (NULL: none)
  form                \* the recommendation form: showProfileForm and UserProfileForm's state

vars == <<feedback, exerciseState, repCount, armAngle, isCorrectForm,
          isMediaPipeLoaded, currentExercise, detectedArm, exerciseStarted,
          repCounterRef, lastStateRef, hasReachedPeakRef, lastRepTimeRef,
          closure, now, userEvents, frame, visit, result, form>>

(***************************************************************************)
(* Bounds of the model.                                                    *)
(***************************************************************************)
\* Date.now() when the page is opened (any value above the debounce interval).
StartTime == 2000
\* Frames are delivered while Date.now() is at most StartTime + MaxElapsed.
MaxElapsed == 2400
\* The user clicks a button or receives a generated exercise at most this many times.
MaxUserEvents == 3

NULL == [null |-> TRUE]

Abs(n) == IF n < 0 THEN -n ELSE n
Min2(a, b) == IF a <= b THEN a ELSE b
Max2(a, b) == IF a >= b THEN a ELSE b

\* One degree, in the model's angle unit.
Deg(d) == d * 1000

\* String.prototype.includes on a string given as the set of substrings it has.
Includes(s, word) == word \in s

(***************************************************************************)
(* Math.atan2 in thousandths of a degree.  ArctanTable[q][p+1] is          *)
(* atan(p/q) for 0 <= p <= q <= 20, rounded to the nearest thousandth.     *)
(***************************************************************************)
ArctanTable ==
  << <<0, 45000>>,
     <<0, 26565, 45000>>,
     <<0, 18435, 33690, 45000>>,
     <<0, 14036, 26565, 36870, 45000>>,
     <<0, 11310, 21801, 30964, 38660, 45000>>,
     <<0, 9462, 18435, 26565, 33690, 39806, 45000>>,
     <<0, 8130, 15945, 23199, 29745, 35538, 40601, 45000>>,
     <<0, 7125, 14036, 20556, 26565, 32005, 36870, 41186, 45000>>,
     <<0, 6340, 12529, 18435, 23962, 29055, 33690, 37875, 41634, 45000>>,
     <<0, 5711, 11310, 16699, 21801, 26565, 30964, 34992, 38660, 41987, 45000>>,
     <<0, 5194, 10305, 15255, 19983, 24444, 28610, 32471, 36027, 39289, 42274, 45000>>,
     <<0, 4764, 9462, 14036, 18435, 22620, 26565, 30256, 33690, 36870, 39806, 42510, 45000>>,
     <<0, 4399, 8746, 12995, 17103, 21038, 24775, 28301, 31608, 34695, 37569, 40236, 42709, 45000>>,
     <<0, 4086, 8130, 12095, 15945, 19654, 23199, 26565, 29745, 32735, 35538, 38157, 40601, 42879, 45000>>,
     <<0, 3814, 7595, 11310, 14931, 18435, 21801, 25017, 28072, 30964, 33690, 36254, 38660, 40914, 43025, 45000>>,
     <<0, 3576, 7125, 10620, 14036, 17354, 20556, 23629, 26565, 29358, 32005, 34509, 36870, 39094, 41186, 43152, 45000>>,
     <<0, 3366, 6710, 10008, 13241, 16390, 19440, 22380, 25201, 27897, 30466, 32905, 35218, 37405, 39472, 41424, 43264, 45000>>,
     <<0, 3180, 6340, 9462, 12529, 15524, 18435, 21251, 23962, 26565, 29055, 31430, 33690, 35838, 37875, 39806, 41634, 43363, 45000>>,
     <<0, 3013, 6009, 8973, 11889, 14744, 17526, 20225, 22834, 25346, 27759, 30069, 32276, 34380, 36384, 38290, 40101, 41820, 43452, 45000>>,
     <<0, 2862, 5711, 8531, 11310, 14036, 16699, 19290, 21801, 24228, 26565, 28811, 30964, 33024, 34992, 36870, 38660, 40365, 41987, 43531, 45000>> >>

Arctan(p, q) == IF p <= q THEN ArctanTable[q][p + 1] ELSE Deg(90) - ArctanTable[p][q + 1]

\* Math.atan2(dy, dx), in (-180, 180] degrees; atan2(0, 0) = 0.
Atan2(dy, dx) ==
  IF dx = 0 /\ dy = 0 THEN 0
  ELSE LET base == Arctan(Abs(dy), Abs(dx))
       IN  IF dx >= 0
           THEN (IF dy >= 0 THEN base ELSE -base)
           ELSE (IF dy >= 0 THEN Deg(180) - base ELSE base - Deg(180))

\* Variant of calculateAngle without Math.abs.
calculateAngleSigned(a, b, c) ==
  LET radians == Atan2(c.y - b.y, c.x - b.x) - Atan2(a.y - b.y, a.x - b.x)
      angle   == radians
  IN  IF angle > Deg(180) THEN Deg(360) - angle ELSE angle

\* Variant of calculateAngle without the reflection of values above 180.
calculateAngleUnreflected(a, b, c) ==
  LET radians == Atan2(c.y - b.y, c.x - b.x) - Atan2(a.y - b.y, a.x - b.x)
  IN  Abs(radians)

\* calculateAngle(a, b, c): the angle at b, reflected into [0, 180].
calculateAngle(a, b, c) ==
  LET radians == Atan2(c.y - b.y, c.x - b.x) - Atan2(a.y - b.y, a.x - b.x)
      angle   == Abs(radians)
  IN  IF angle > Deg(180) THEN Deg(360) - angle ELSE angle

\* Math.round of an angle, in whole degrees.
Round(angle) == (angle + 500) \div 1000

(***************************************************************************)
(* Pose landmarks.  results.poseLandmarks is a function from the limb      *)
(* landmark indices to points; present = FALSE stands for an entry that    *)
(* is undefined in the array.  visibility is in tenths.                    *)
(***************************************************************************)
LandmarkIdx == (11..16) \cup (23..28)

LeftIdx  == {11, 13, 15, 23, 25, 27}
RightIdx == {12, 14, 16, 24, 26, 28}

\* landmarks[i] is truthy
Has(landmarks, i) == i \in DOMAIN landmarks /\ landmarks[i].present

\* Directions a limb segment can take (left side; the right side is mirrored in x).
Dir == [Down |-> <<0, 1>>, DownOut |-> <<1, 1>>, Out |-> <<1, 0>>,
        UpOut |-> <<1, -1>>, Up |-> <<0, -1>>, UpIn |-> <<-1, -1>>]

\* The sample body: image column of the midline, half-width of the trunk, image
\* rows of the shoulders and hips, and the length of a limb segment (grid units).
Body == [midX |-> 10, halfTrunk |-> 2, shoulderY |-> 6, hipY |-> 12, segLen |-> 3]
\* Visibility (tenths) of a well-tracked landmark and of a poorly tracked one.
Visibility == [good |-> 9, poor |-> 1]

Pt(x, y) == [x |-> x, y |-> y, visibility |-> Visibility.good, present |-> TRUE]

\* sx = 1 for the left side of the body, -1 for the right side.
Joint(origin, sx, dir) ==
  Pt(origin.x + sx * Body.segLen * Dir[dir][1], origin.y + Body.segLen * Dir[dir][2])

\* A whole-body pose: each limb is <<direction of upper segment, direction of lower segment>>.
Pose(leftArm, rightArm, leftLeg, rightLeg) ==
  LET ls == Pt(Body.midX + Body.halfTrunk, Body.shoulderY)
      rs == Pt(Body.midX - Body.halfTrunk, Body.shoulderY)
      lh == Pt(Body.midX + Body.halfTrunk, Body.hipY)
      rh == Pt(Body.midX - Body.halfTrunk, Body.hipY)
      le == Joint(ls, 1, leftArm[1])
      re == Joint(rs, -1, rightArm[1])
      lk == Joint(lh, 1, leftLeg[1])
      rk == Joint(rh, -1, rightLeg[1])
  IN  (11 :> ls) @@ (12 :> rs) @@ (13 :> le) @@ (14 :> re)
      @@ (15 :> Joint(le, 1, leftArm[2])) @@ (16 :> Joint(re, -1, rightArm[2]))
      @@ (23 :> lh) @@ (24 :> rh) @@ (25 :> lk) @@ (26 :> rk)
      @@ (27 :> Joint(lk, 1, leftLeg[2])) @@ (28 :> Joint(rk, -1, rightLeg[2]))

\* The pose with the landmarks of `absent` undefined and those of `dim` poorly visible.
Degrade(pose, absent, dim) ==
  [i \in DOMAIN pose |->
     [pose[i] EXCEPT !.present = (i \notin absent),
                     !.visibility = IF i \in dim THEN Visibility.poor ELSE Visibility.good]]

(***************************************************************************)
(* Exercise configurations (ExerciseData).  exerciseName and the           *)
(* conditions of form checks are sets of the lower-case substrings the     *)
(* code looks for; errorMessage is the message itself.                     *)
(***************************************************************************)
Ranges(sp, tr, op) ==
  [startingPosition |-> <<Deg(sp[1]), Deg(sp[2])>>,
   targetRange      |-> <<Deg(tr[1]), Deg(tr[2])>>,
   optimalPeak      |-> <<Deg(op[1]), Deg(op[2])>>]

Thresholds(liftingMin, loweringMax, restMax) ==
  [liftingMin |-> Deg(liftingMin), loweringMax |-> Deg(loweringMax), restMax |-> Deg(restMax)]

FormCheck(condition, errorMessage, keypoints) ==
  [condition |-> condition, errorMessage |-> errorMessage, keypoints |-> keypoints]

defaultExercise ==
  [exerciseName    |-> {"shoulder", "abduction"},
   targetKeypoints |-> <<11, 13, 15, 23>>,
   points          |-> <<23, 11, 13>>,
   targetRanges    |-> Ranges(<<0, 45>>, <<90, 180>>, <<90, 120>>),
   formChecks      |-> << FormCheck({"wrist higher than shoulder"},
                                    "Keep your arm horizontal, don't lift too high", <<11, 15>>),
                          FormCheck({"elbow below shoulder"},
                                    "Keep your elbow level with your shoulder", <<11, 13>>) >>,
   repThresholds   |-> Thresholds(60, 75, 45)]

exerciseTemplates ==
  [shoulderAbduction |->
     [anglePoints   |-> <<23, 11, 13>>,
      targetRanges  |-> Ranges(<<0, 45>>, <<90, 180>>, <<160, 180>>),
      repThresholds |-> Thresholds(90, 60, 30)],
   shoulderFlexion |->
     [anglePoints   |-> <<23, 11, 13>>,
      targetRanges  |-> Ranges(<<0, 30>>, <<90, 180>>, <<160, 180>>),
      repThresholds |-> Thresholds(90, 60, 30)],
   pendulum |->
     [anglePoints   |-> <<11, 13, 15>>,
      targetRanges  |-> Ranges(<<160, 180>>, <<90, 160>>, <<90, 120>>),
      repThresholds |-> Thresholds(140, 160, 175)],
   armCurl |->
     [anglePoints   |-> <<11, 13, 15>>,
      targetRanges  |-> Ranges(<<160, 180>>, <<30, 90>>, <<30, 60>>),
      repThresholds |-> Thresholds(120, 150, 170)],
   legRaise |->
     [anglePoints   |-> <<12, 24, 26>>,
      targetRanges  |-> Ranges(<<160, 180>>, <<90, 160>>, <<90, 120>>),
      repThresholds |-> Thresholds(140, 160, 175)]]

\* The template validateAndCorrectExercise selects from the exercise name, or NULL.
SelectTemplate(exerciseName) ==
  IF Includes(exerciseName, "abduction") \/ Includes(exerciseName, "side")
  THEN exerciseTemplates.shoulderAbduction
  ELSE IF Includes(exerciseName, "flexion") \/ Includes(exerciseName, "forward")
  THEN exerciseTemplates.shoulderFlexion
  ELSE IF Includes(exerciseName, "pendulum") \/ Includes(exerciseName, "swing")
  THEN exerciseTemplates.pendulum
  ELSE IF Includes(exerciseName, "curl") \/ Includes(exerciseName, "bicep")
          \/ Includes(exerciseName, "biceps")
  THEN exerciseTemplates.armCurl
  ELSE IF Includes(exerciseName, "leg") /\ Includes(exerciseName, "raise")
  THEN exerciseTemplates.legRaise
  ELSE NULL

\* The correction of rep thresholds that are not in ascending order.
CorrectThresholds(t) ==
  IF t.liftingMin >= t.loweringMax \/ t.loweringMax >= t.restMax
  THEN [liftingMin  |-> Min2(t.liftingMin, Min2(t.loweringMax, t.restMax)),
        loweringMax |-> Max2(Min2(t.liftingMin, t.loweringMax), Min2(t.loweringMax, t.restMax)),
        restMax     |-> Max2(t.liftingMin, Max2(t.loweringMax, t.restMax))]
  ELSE t

validateAndCorrectExercise(exerciseData) ==
  LET template == SelectTemplate(exerciseData.exerciseName)
      templated == IF template # NULL
                   THEN ("points" :> template.anglePoints)
                        @@ ("targetRanges" :> template.targetRanges)
                        @@ ("repThresholds" :> template.repThresholds)
                        @@ exerciseData
                   ELSE exerciseData
  IN  [templated EXCEPT !.repThresholds = CorrectThresholds(templated.repThresholds)]

(***************************************************************************)
(* Active-side detection.  `captured` is the detectedArm the enclosing     *)
(* effect closure holds.                                                   *)
(***************************************************************************)
\* A coordinate difference (grid units of 0.05) in thousandths.
Milli(units) == units * 50

LegScore(shoulder, hip, knee, ankle) ==
  LET hipAngle  == calculateAngle(shoulder, hip, knee)
      elevation == Milli(hip.y - ankle.y)
      extension == Milli(Abs(knee.x - hip.x) + Abs(ankle.x - knee.x))
  IN  elevation * 2 + extension + Abs(hipAngle - Deg(180))

leftLegScore(landmarks)  == LegScore(landmarks[11], landmarks[23], landmarks[25], landmarks[27])
rightLegScore(landmarks) == LegScore(landmarks[12], landmarks[24], landmarks[26], landmarks[28])

\* rightScore > leftScore * (1 + threshold) with threshold = 0.3
LegExceeds(score, other) == 10 * score > 13 * other

\* The result is "left", "right", or "TypeError" when calculateAngle reads a
\* coordinate of an undefined shoulder landmark.
detectActiveLeg(landmarks, captured) ==
  IF \E i \in {23, 25, 27, 24, 26, 28} : ~Has(landmarks, i)
  THEN captured
  ELSE IF ~Has(landmarks, 11) \/ ~Has(landmarks, 12)
  THEN "TypeError"
  ELSE IF LegExceeds(rightLegScore(landmarks), leftLegScore(landmarks)) THEN "right"
  ELSE IF LegExceeds(leftLegScore(landmarks), rightLegScore(landmarks)) THEN "left"
  ELSE captured

ArmScore(hip, shoulder, elbow, wrist) ==
  LET shoulderAngle == calculateAngle(hip, shoulder, elbow)
      armHeight     == Milli(shoulder.y - wrist.y)
      armExtension  == Milli(Abs(wrist.x - shoulder.x))
  IN  armHeight * 3 + armExtension * 2 + Abs(shoulderAngle - Deg(20))

\* landmarks[23] || landmarks[11]
HipOrShoulder(landmarks, hip, shoulder) ==
  IF Has(landmarks, hip) THEN landmarks[hip] ELSE landmarks[shoulder]

leftMovementScore(landmarks) ==
  ArmScore(HipOrShoulder(landmarks, 23, 11), landmarks[11], landmarks[13], landmarks[15])
rightMovementScore(landmarks) ==
  ArmScore(HipOrShoulder(landmarks, 24, 12), landmarks[12], landmarks[14], landmarks[16])

\* Variant of ArmScoresDiffer that tests scoreDifference / averageScore > switchThreshold
\* for a positive average only.
ArmScoresDifferByRatio(left, right) ==
  left + right > 0 /\ 40 * Abs(left - right) > 3 * (left + right)

\* scoreDifference > averageScore * switchThreshold with switchThreshold = 0.15
ArmScoresDiffer(left, right) == 40 * Abs(left - right) > 3 * (left + right)

detectActiveArm(landmarks, captured) ==
  IF \E i \in {11, 13, 15, 12, 14, 16} : ~Has(landmarks, i)
  THEN captured
  ELSE IF ArmScoresDiffer(leftMovementScore(landmarks), rightMovementScore(landmarks))
  THEN (IF rightMovementScore(landmarks) > leftMovementScore(landmarks) THEN "right" ELSE "left")
  ELSE captured

\* getExerciseBodyPart
SeqSome(s, P(_)) == \E k \in 1..Len(s) : P(s[k])
IsLegKeypoint(k) == k >= 23 /\ k <= 32
getExerciseBodyPart(exercise) ==
  IF SeqSome(exercise.targetKeypoints, IsLegKeypoint) THEN "legs" ELSE "arms"

\* The index maps applied to primaryAngle.points for the right side.
LegMirror(point) ==
  CASE point = 23 -> 24 [] point = 25 -> 26 [] point = 27 -> 28 [] point = 11 -> 12
    [] OTHER -> point
ArmMirror(point) ==
  CASE point = 11 -> 12 [] point = 13 -> 14 [] point = 15 -> 16 [] point = 23 -> 24
    [] point = 25 -> 26 [] OTHER -> point
\* The index map applied to a form check's keypoints for the right side.
CheckMirror(idx) ==
  CASE idx = 11 -> 12 [] idx = 13 -> 14 [] idx = 15 -> 16 [] idx = 23 -> 24
    [] idx = 25 -> 26 [] idx = 27 -> 28 [] OTHER -> idx

\* adjustedPoints in analyzeLegExercise / analyzeArmExercise
adjustedPoints(exercise, side, bodyPart) ==
  IF side = "right"
  THEN [k \in 1..3 |-> IF bodyPart = "legs" THEN LegMirror(exercise.points[k])
                                            ELSE ArmMirror(exercise.points[k])]
  ELSE exercise.points

(***************************************************************************)
(* analyzeExerciseForm                                                     *)
(***************************************************************************)
\* Minimum time between two counted reps (ms).
DebounceMs == 1000

isLiftingExercise(exercise) ==
  \/ Includes(exercise.exerciseName, "abduction")
  \/ Includes(exercise.exerciseName, "flexion")
  \/ Includes(exercise.exerciseName, "raise")
  \/ Includes(exercise.exerciseName, "extension")

isCurlingExercise(exercise) ==
  Includes(exercise.exerciseName, "curl") \/ Includes(exercise.exerciseName, "bicep")

isLegExercise(exercise) ==
  \/ Includes(exercise.exerciseName, "squat")
  \/ Includes(exercise.exerciseName, "lunge")
  \/ Includes(exercise.exerciseName, "hip")
  \/ Includes(exercise.exerciseName, "leg")

actionVerbGerund(exercise) ==
  IF isLegExercise(exercise)
  THEN (IF Includes(exercise.exerciseName, "squat") THEN "squatting"
        ELSE IF Includes(exercise.exerciseName, "lunge") THEN "lunging" ELSE "lifting")
  ELSE IF isCurlingExercise(exercise) THEN "curling"
  ELSE "lifting"

InRange(angle, range) == angle >= range[1] /\ angle <= range[2]

isInOptimalPeak(exercise, angle) ==
  IF isLegExercise(exercise)
  THEN InRange(angle, exercise.targetRanges.optimalPeak)
  ELSE \/ isLiftingExercise(exercise) /\ InRange(angle, exercise.targetRanges.optimalPeak)
       \/ isCurlingExercise(exercise) /\ InRange(angle, exercise.targetRanges.optimalPeak)

isInStartingPosition(exercise, angle) ==
  LET startingPosition == exercise.targetRanges.startingPosition
  IN  IF isLegExercise(exercise)
      THEN angle <= startingPosition[2] \/ angle >= startingPosition[1]
      ELSE \/ isLiftingExercise(exercise) /\ angle <= startingPosition[2]
           \/ isCurlingExercise(exercise) /\ angle >= startingPosition[1]

\* The condition under which a frame counts a rep.
RepCounted(exercise, angle, hasReachedPeak, lastRepTime, currentTime) ==
  isInOptimalPeak(exercise, angle) /\ ~hasReachedPeak /\ currentTime - lastRepTime > DebounceMs

\* Whether hasReachedPeakRef is cleared at the end of the rep-counting step.
PeakCleared(exercise, angle, hasReachedPeak) ==
  isInStartingPosition(exercise, angle) /\ hasReachedPeak

\* currentState and feedbackText before the form checks (formCorrect is true in every branch).
Classify(exercise, angle) ==
  LET gerund == actionVerbGerund(exercise)
      liftingMin == exercise.repThresholds.liftingMin
  IN  IF isInOptimalPeak(exercise, angle)
      THEN [currentState |-> gerund, feedbackText |-> "Excellent! Rep completed - Full range achieved"]
      ELSE IF isLegExercise(exercise)
      THEN (IF Includes(exercise.exerciseName, "squat")
               /\ angle < exercise.targetRanges.optimalPeak[1]
            THEN [currentState |-> gerund, feedbackText |-> "Go deeper!"]
            ELSE IF angle > liftingMin
            THEN [currentState |-> gerund, feedbackText |-> "Keep going!"]
            ELSE [currentState |-> "ready", feedbackText |-> "Ready position"])
      ELSE IF \/ isLiftingExercise(exercise) /\ angle > liftingMin
              \/ isCurlingExercise(exercise) /\ angle < liftingMin
      THEN [currentState |-> gerund, feedbackText |-> "Keep going!"]
      ELSE IF isInStartingPosition(exercise, angle)
      THEN [currentState |-> "ready", feedbackText |-> "Ready position"]
      ELSE [currentState |-> "ready", feedbackText |-> "Start your movement"]

\* Variant of RuleFails in which a rule with an unknown condition fails while moving.
RuleFailsUnknown(check, landmarks, side, moving) ==
  LET shoulderIdx == IF side = "left" THEN 11 ELSE 12
      elbowIdx    == IF side = "left" THEN 13 ELSE 14
      wristIdx    == IF side = "left" THEN 15 ELSE 16
      hipIdx      == IF side = "left" THEN 23 ELSE 24
      kneeIdx     == IF side = "left" THEN 25 ELSE 26
      ankleIdx    == IF side = "left" THEN 27 ELSE 28
  IN  IF Includes(check.condition, "wrist higher than shoulder") /\ moving
      THEN /\ Has(landmarks, shoulderIdx) /\ Has(landmarks, wristIdx)
           /\ landmarks[wristIdx].y < landmarks[shoulderIdx].y - 2
      ELSE IF Includes(check.condition, "elbow below shoulder") /\ moving
      THEN /\ Has(landmarks, shoulderIdx) /\ Has(landmarks, elbowIdx)
           /\ landmarks[elbowIdx].y > landmarks[shoulderIdx].y + 1
      ELSE IF Includes(check.condition, "knee alignment") /\ moving
      THEN /\ Has(landmarks, hipIdx) /\ Has(landmarks, kneeIdx) /\ Has(landmarks, ankleIdx)
           /\ Abs(landmarks[kneeIdx].x - landmarks[ankleIdx].x) > 2
      ELSE IF Includes(check.condition, "back straight") /\ moving
      THEN /\ Has(landmarks, shoulderIdx) /\ Has(landmarks, hipIdx)
           /\ Abs(landmarks[shoulderIdx].x - landmarks[hipIdx].x) > 3
      ELSE moving

\* Whether the geometric test of a recognised form rule reports a violation.
\* Distances: 0.1 = 2 grid units, 0.05 = 1, 0.15 = 3.
RuleFails(check, landmarks, side, moving) ==
  LET shoulderIdx == IF side = "left" THEN 11 ELSE 12
      elbowIdx    == IF side = "left" THEN 13 ELSE 14
      wristIdx    == IF side = "left" THEN 15 ELSE 16
      hipIdx      == IF side = "left" THEN 23 ELSE 24
      kneeIdx     == IF side = "left" THEN 25 ELSE 26
      ankleIdx    == IF side = "left" THEN 27 ELSE 28
  IN  IF Includes(check.condition, "wrist higher than shoulder") /\ moving
      THEN /\ Has(landmarks, shoulderIdx) /\ Has(landmarks, wristIdx)
           /\ landmarks[wristIdx].y < landmarks[shoulderIdx].y - 2
      ELSE IF Includes(check.condition, "elbow below shoulder") /\ moving
      THEN /\ Has(landmarks, shoulderIdx) /\ Has(landmarks, elbowIdx)
           /\ landmarks[elbowIdx].y > landmarks[shoulderIdx].y + 1
      ELSE IF Includes(check.condition, "knee alignment") /\ moving
      THEN /\ Has(landmarks, hipIdx) /\ Has(landmarks, kneeIdx) /\ Has(landmarks, ankleIdx)
           /\ Abs(landmarks[kneeIdx].x - landmarks[ankleIdx].x) > 2
      ELSE IF Includes(check.condition, "back straight") /\ moving
      THEN /\ Has(landmarks, shoulderIdx) /\ Has(landmarks, hipIdx)
           /\ Abs(landmarks[shoulderIdx].x - landmarks[hipIdx].x) > 3
      ELSE Includes(check.condition, "Elbow moving off thigh") /\ moving

\* One iteration of exercise.formChecks.forEach: acc is [feedbackText, formCorrect].
CheckStep(check, acc, landmarks, side, moving) ==
  LET adjustedKeypoints ==
        [k \in 1..Len(check.keypoints) |->
           IF side = "right" THEN CheckMirror(check.keypoints[k]) ELSE check.keypoints[k]]
      keypoints == {k \in 1..Len(adjustedKeypoints) : Has(landmarks, adjustedKeypoints[k])}
  IN  IF Cardinality(keypoints) >= 2 /\ RuleFails(check, landmarks, side, moving)
      THEN [feedbackText |-> check.errorMessage, formCorrect |-> "false"]
      ELSE acc

RECURSIVE RunFormChecks(_, _, _, _, _, _)
RunFormChecks(formChecks, k, acc, landmarks, side, moving) ==
  IF k > Len(formChecks) THEN acc
  ELSE RunFormChecks(formChecks, k + 1,
                     CheckStep(formChecks[k], acc, landmarks, side, moving),
                     landmarks, side, moving)

\* The session values analyzeExerciseForm reads and writes.
Session ==
  [repCounterRef |-> repCounterRef, hasReachedPeakRef |-> hasReachedPeakRef,
   lastRepTimeRef |-> lastRepTimeRef, lastStateRef |-> lastStateRef,
   repCount |-> repCount, exerciseState |-> exerciseState,
   feedback |-> feedback, isCorrectForm |-> isCorrectForm]

\* The early return of analyzeExerciseForm while the exercise is not started.
NotStarted(s) ==
  [s EXCEPT !.feedback = "Click Start Exercise to begin tracking your movements",
            !.isCorrectForm = "null"]

\* The body of analyzeExerciseForm after the exerciseStarted guard.
Analyzed(angle, landmarks, exercise, side, currentTime, s) ==
  LET counted  == RepCounted(exercise, angle, s.hasReachedPeakRef, s.lastRepTimeRef, currentTime)
      peak1    == IF counted THEN TRUE ELSE s.hasReachedPeakRef
      reps     == IF counted THEN s.repCounterRef + 1 ELSE s.repCounterRef
      peak2    == IF PeakCleared(exercise, angle, peak1) THEN FALSE ELSE peak1
      class    == Classify(exercise, angle)
      moving   == class.currentState = actionVerbGerund(exercise)
      checked  == RunFormChecks(exercise.formChecks, 1,
                                [feedbackText |-> class.feedbackText, formCorrect |-> "true"],
                                landmarks, side, moving)
      changed  == class.currentState # s.lastStateRef
  IN  [repCounterRef     |-> reps,
       hasReachedPeakRef |-> peak2,
       lastRepTimeRef    |-> IF counted THEN currentTime ELSE s.lastRepTimeRef,
       lastStateRef      |-> class.currentState,
       repCount          |-> IF counted THEN reps ELSE s.repCount,
       exerciseState     |-> IF changed THEN class.currentState ELSE s.exerciseState,
       feedback          |-> checked.feedbackText,
       isCorrectForm     |-> checked.formCorrect]

\* Variant of analyzeExerciseForm without the exerciseStarted guard.
analyzeExerciseFormUnguarded(angle, landmarks, exercise, side, started, currentTime, s) ==
  Analyzed(angle, landmarks, exercise, side, currentTime, s)

\* analyzeExerciseForm(angle, landmarks, exercise, detectedArm) run by a callback
\* that captured exerciseStarted = started, at Date.now() = currentTime, on session s.
analyzeExerciseForm(angle, landmarks, exercise, side, started, currentTime, s) ==
  IF ~started THEN NotStarted(s)
  ELSE Analyzed(angle, landmarks, exercise, side, currentTime, s)

(***************************************************************************)
(* Inputs of the model.                                                    *)
(***************************************************************************)
\* Limb postures: <<direction of the upper segment, direction of the lower segment>>.
Hanging  == <<"Down", "Down">>
Lowered  == <<"DownOut", "DownOut">>
Sideways == <<"Out", "Out">>
Raised   == <<"Up", "Out">>
Flexed   == <<"Out", "UpIn">>
Seated   == <<"Out", "Down">>

\* Exercises as the recommendation service's model may return them (before
\* validateAndCorrectExercise).
RawExercises ==
  { [exerciseName    |-> {"bicep", "curl"},
     targetKeypoints |-> <<11, 13, 15>>,
     points          |-> <<11, 13, 15>>,
     targetRanges    |-> Ranges(<<150, 180>>, <<30, 90>>, <<30, 70>>),
     formChecks      |-> << FormCheck({"keep elbow close to the body"}, "Keep your elbow still", <<11, 13>>) >>,
     repThresholds   |-> Thresholds(120, 150, 170)],
    [exerciseName    |-> {"concentration", "curl"},
     targetKeypoints |-> <<11, 13, 15>>,
     points          |-> <<11, 13, 15>>,
     targetRanges    |-> Ranges(<<150, 180>>, <<30, 90>>, <<30, 70>>),
     formChecks      |-> << FormCheck({"Elbow moving off thigh"}, "Keep your elbow on your thigh", <<13, 15>>),
                            FormCheck({"elbow below shoulder"}, "Keep your elbow level", <<11, 13>>) >>,
     repThresholds   |-> Thresholds(120, 150, 170)],
    [exerciseName    |-> {"pendulum", "swing"},
     targetKeypoints |-> <<11, 13, 15>>,
     points          |-> <<11, 13, 15>>,
     targetRanges    |-> Ranges(<<160, 180>>, <<90, 160>>, <<90, 120>>),
     formChecks      |-> << >>,
     repThresholds   |-> Thresholds(140, 160, 175)],
    [exerciseName    |-> {"leg", "raise"},
     targetKeypoints |-> <<11, 23, 25>>,
     points          |-> <<11, 23, 25>>,
     targetRanges    |-> Ranges(<<160, 180>>, <<90, 160>>, <<90, 120>>),
     formChecks      |-> << FormCheck({"back straight"}, "Keep your back straight", <<11, 23>>) >>,
     repThresholds   |-> Thresholds(90, 60, 30)],
    [exerciseName    |-> {"squat"},
     targetKeypoints |-> <<23, 25, 27>>,
     points          |-> <<23, 25, 27>>,
     targetRanges    |-> Ranges(<<160, 180>>, <<70, 110>>, <<80, 100>>),
     formChecks      |-> << FormCheck({"knee alignment"}, "Keep your knees over your ankles", <<25, 27>>) >>,
     repThresholds   |-> Thresholds(150, 120, 170)],
    [exerciseName    |-> {"front", "raise"},
     targetKeypoints |-> <<11, 13, 15>>,
     points          |-> <<23, 11, 13>>,
     targetRanges    |-> Ranges(<<0, 45>>, <<90, 180>>, <<160, 180>>),
     formChecks      |-> << FormCheck({"elbow below shoulder"}, "Keep your elbow level", <<11, 13>>) >>,
     repThresholds   |-> Thresholds(90, 60, 30)] }

\* What POST /api/exercise-recommendation returns as data on success.
GeneratedExercises == {validateAndCorrectExercise(raw) : raw \in RawExercises}

\* Milliseconds between two delivered pose results.
FrameGaps == {400, 600}

(***************************************************************************)
(* State machine.                                                          *)
(***************************************************************************)
NoFrame ==
  [landmarks |-> Pose(Hanging, Hanging, Hanging, Hanging), outcome |-> "none",
   exercise |-> defaultExercise, started |-> FALSE, side |-> "left",
   points |-> defaultExercise.points, angle |-> 0, counted |-> FALSE]

\* showProfileForm is false; a form that is opened has isLoading false and no error.
\* awaiting: a handleSubmit is at its await; submitted: it is the mounted form's.
NoForm == [open |-> FALSE, isLoading |-> FALSE, error |-> "null",
           awaiting |-> FALSE, submitted |-> FALSE]

Init ==
  /\ feedback = "Loading MediaPipe..."
  /\ exerciseState = "ready"
  /\ repCount = 0
  /\ armAngle = 0
  /\ isCorrectForm = "null"
  /\ isMediaPipeLoaded = FALSE
  /\ currentExercise = NULL
  /\ detectedArm = "left"
  /\ exerciseStarted = FALSE
  /\ repCounterRef = 0
  /\ lastStateRef = "ready"
  /\ hasReachedPeakRef = FALSE
  /\ lastRepTimeRef = 0
  /\ closure = [mounted |-> FALSE, pending |-> FALSE, currentExercise |-> NULL,
                exerciseStarted |-> FALSE, detectedArm |-> "left"]
  /\ now = StartTime
  /\ userEvents = 0
  /\ frame = NoFrame
  /\ visit = [phase |-> "idle", reps |-> 0, held |-> 0, apart |-> 0, exercise |-> NULL]
  /\ result = NULL
  /\ form = NoForm

\* Variant of Rerendered in which an effect run pending from the previous commit is
\* not carried out before the next update.
RerenderedUnflushed == [closure EXCEPT !.pending = TRUE]

\* The effect closure after a state update of a dependency: the effect is to run
\* again (pending).  An effect run still pending from the previous commit is
\* carried out first, with the values of that commit, before the update is rendered.
Rerendered ==
  IF closure.pending
  THEN [mounted |-> isMediaPipeLoaded, pending |-> TRUE,
        currentExercise |-> currentExercise, exerciseStarted |-> exerciseStarted,
        detectedArm |-> detectedArm]
  ELSE [closure EXCEPT !.pending = TRUE]

\* Both MediaPipe scripts have loaded: setIsMediaPipeLoaded(true).
ScriptsLoaded ==
  /\ ~isMediaPipeLoaded
  /\ isMediaPipeLoaded' = TRUE
  /\ closure' = Rerendered
  /\ UNCHANGED <<feedback, exerciseState, repCount, armAngle, isCorrectForm, currentExercise,
                 detectedArm, exerciseStarted, repCounterRef, lastStateRef, hasReachedPeakRef,
                 lastRepTimeRef, now, userEvents, frame>>

\* A dependency of the effect changed: its cleanup runs and the effect runs again,
\* with callbacks that capture the values of the current render; once the scripts
\* are loaded initializeMediaPipe starts the camera and sets the feedback.
RunEffect ==
  /\ closure.pending
  /\ closure' = [mounted |-> isMediaPipeLoaded, pending |-> FALSE,
                 currentExercise |-> currentExercise, exerciseStarted |-> exerciseStarted,
                 detectedArm |-> detectedArm]
  /\ feedback' = IF isMediaPipeLoaded THEN "Position yourself in front of the camera"
                 ELSE feedback
  /\ UNCHANGED <<exerciseState, repCount, armAngle, isCorrectForm, isMediaPipeLoaded,
                 currentExercise, detectedArm, exerciseStarted, repCounterRef, lastStateRef,
                 hasReachedPeakRef, lastRepTimeRef, now, userEvents, frame>>

\* Variant of handleExerciseGenerated that leaves the rep counter and the peak flag.
handleExerciseGeneratedKeepsSession(exerciseData) ==
  /\ userEvents < MaxUserEvents
  /\ userEvents' = userEvents + 1
  /\ currentExercise' = exerciseData
  /\ exerciseStarted' = FALSE
  /\ feedback' = "Exercise loaded. Click Start Exercise to begin."
  /\ closure' = Rerendered
  /\ UNCHANGED <<exerciseState, armAngle, isCorrectForm, isMediaPipeLoaded, detectedArm,
                 repCount, repCounterRef, hasReachedPeakRef, lastStateRef,
                 lastRepTimeRef, now, frame>>

handleExerciseGenerated(exerciseData) ==
  /\ userEvents < MaxUserEvents
  /\ userEvents' = userEvents + 1
  /\ currentExercise' = exerciseData
  /\ repCount' = 0
  /\ repCounterRef' = 0
  /\ hasReachedPeakRef' = FALSE
  /\ lastStateRef' = "ready"
  /\ exerciseStarted' = FALSE
  /\ feedback' = "Exercise loaded. Click Start Exercise to begin."
  /\ closure' = Rerendered
  /\ UNCHANGED <<exerciseState, armAngle, isCorrectForm, isMediaPipeLoaded, detectedArm,
                 lastRepTimeRef, now, frame>>

\* onClick of the "Use Default Exercise" button, rendered while currentExercise is set.
UseDefaultExercise ==
  /\ currentExercise # NULL
  /\ userEvents < MaxUserEvents
  /\ userEvents' = userEvents + 1
  /\ currentExercise' = NULL
  /\ repCount' = 0
  /\ repCounterRef' = 0
  /\ hasReachedPeakRef' = FALSE
  /\ lastStateRef' = "ready"
  /\ exerciseStarted' = FALSE
  /\ feedback' = "Position yourself in front of the camera"
  /\ closure' = Rerendered
  /\ UNCHANGED <<exerciseState, armAngle, isCorrectForm, isMediaPipeLoaded, detectedArm,
                 lastRepTimeRef, now, frame>>

\* Variant of handleStartExercise that resets the session on Stop as well.
handleStartExerciseResetsOnStop ==
  /\ userEvents < MaxUserEvents
  /\ userEvents' = userEvents + 1
  /\ exerciseStarted' = ~exerciseStarted
  /\ closure' = Rerendered
  /\ repCount' = 0
  /\ repCounterRef' = 0
  /\ hasReachedPeakRef' = FALSE
  /\ lastRepTimeRef' = 0
  /\ lastStateRef' = "ready"
  /\ feedback' = IF ~exerciseStarted THEN "Exercise started! Begin your movements"
                 ELSE "Exercise stopped"
  /\ UNCHANGED <<exerciseState, armAngle, isCorrectForm, isMediaPipeLoaded, currentExercise,
                 detectedArm, now, frame>>

\* Variant of handleStartExercise that keeps the time of the last rep on Start.
handleStartExerciseKeepsDebounce ==
  /\ userEvents < MaxUserEvents
  /\ userEvents' = userEvents + 1
  /\ exerciseStarted' = ~exerciseStarted
  /\ closure' = Rerendered
  /\ IF ~exerciseStarted
     THEN /\ repCount' = 0
          /\ repCounterRef' = 0
          /\ hasReachedPeakRef' = FALSE
          /\ lastStateRef' = "ready"
          /\ feedback' = "Exercise started! Begin your movements"
     ELSE /\ feedback' = "Exercise stopped"
          /\ UNCHANGED <<repCount, repCounterRef, hasReachedPeakRef, lastStateRef>>
  /\ UNCHANGED <<exerciseState, armAngle, isCorrectForm, isMediaPipeLoaded, currentExercise,
                 detectedArm, lastRepTimeRef, now, frame>>

handleStartExercise ==
  /\ userEvents < MaxUserEvents
  /\ userEvents' = userEvents + 1
  /\ exerciseStarted' = ~exerciseStarted
  /\ closure' = Rerendered
  /\ IF ~exerciseStarted
     THEN /\ repCount' = 0
          /\ repCounterRef' = 0
          /\ hasReachedPeakRef' = FALSE
          /\ lastRepTimeRef' = 0
          /\ lastStateRef' = "ready"
          /\ feedback' = "Exercise started! Begin your movements"
     ELSE /\ feedback' = "Exercise stopped"
          /\ UNCHANGED <<repCount, repCounterRef, hasReachedPeakRef, lastRepTimeRef, lastStateRef>>
  /\ UNCHANGED <<exerciseState, armAngle, isCorrectForm, isMediaPipeLoaded, currentExercise,
                 detectedArm, now, frame>>

\* Variant of Analysis in which a failed side detection does not end the callback:
\* its outcome is used as the side.
AnalysisUnthrown(landmarks, c, currentTime, s) ==
  LET exercise == IF c.currentExercise # NULL THEN c.currentExercise ELSE defaultExercise
      bodyPart == getExerciseBodyPart(exercise)
      side     == IF bodyPart = "legs" THEN detectActiveLeg(landmarks, c.detectedArm)
                  ELSE detectActiveArm(landmarks, c.detectedArm)
      points   == adjustedPoints(exercise, side, bodyPart)
      tracked  == \A k \in 1..3 : Has(landmarks, points[k])
      angle    == IF tracked
                  THEN calculateAngle(landmarks[points[1]], landmarks[points[2]], landmarks[points[3]])
                  ELSE 0
  IN  [exercise |-> exercise, side |-> side, points |-> points, angle |-> angle,
       outcome  |-> IF tracked THEN "analysed" ELSE "skipped",
       session  |-> IF tracked
                    THEN analyzeExerciseForm(angle, landmarks, exercise, side,
                                             c.exerciseStarted, currentTime, s)
                    ELSE s]

\* Variant of Analysis without the test that the three points are present.
AnalysisUntracked(landmarks, c, currentTime, s) ==
  LET exercise == IF c.currentExercise # NULL THEN c.currentExercise ELSE defaultExercise
      bodyPart == getExerciseBodyPart(exercise)
      side     == IF bodyPart = "legs" THEN detectActiveLeg(landmarks, c.detectedArm)
                  ELSE detectActiveArm(landmarks, c.detectedArm)
      points   == adjustedPoints(exercise, side, bodyPart)
      angle    == IF side # "TypeError"
                  THEN calculateAngle(landmarks[points[1]], landmarks[points[2]], landmarks[points[3]])
                  ELSE 0
  IN  [exercise |-> exercise, side |-> side, points |-> points, angle |-> angle,
       outcome  |-> IF side = "TypeError" THEN "TypeError" ELSE "analysed",
       session  |-> IF side # "TypeError"
                    THEN analyzeExerciseForm(angle, landmarks, exercise, side,
                                             c.exerciseStarted, currentTime, s)
                    ELSE s]

\* What analyzeLegExercise / analyzeArmExercise do with one pose result, for the
\* callbacks that captured c: the side, the three points, the angle and the new session.
Analysis(landmarks, c, currentTime, s) ==
  LET exercise == IF c.currentExercise # NULL THEN c.currentExercise ELSE defaultExercise
      bodyPart == getExerciseBodyPart(exercise)
      side     == IF bodyPart = "legs" THEN detectActiveLeg(landmarks, c.detectedArm)
                  ELSE detectActiveArm(landmarks, c.detectedArm)
      points   == adjustedPoints(exercise, side, bodyPart)
      tracked  == side # "TypeError" /\ \A k \in 1..3 : Has(landmarks, points[k])
      angle    == IF tracked
                  THEN calculateAngle(landmarks[points[1]], landmarks[points[2]], landmarks[points[3]])
                  ELSE 0
  IN  [exercise |-> exercise, side |-> side, points |-> points, angle |-> angle,
       outcome  |-> IF side = "TypeError" THEN "TypeError"
                    ELSE IF tracked THEN "analysed" ELSE "skipped",
       session  |-> IF tracked
                    THEN analyzeExerciseForm(angle, landmarks, exercise, side,
                                             c.exerciseStarted, currentTime, s)
                    ELSE s]

\* pose.onResults(onResults) delivering results.poseLandmarks = landmarks, gap ms
\* after the previous result, to the callbacks of the mounted effect.
onResults(landmarks, gap) ==
  /\ closure.mounted
  /\ now + gap <= StartTime + MaxElapsed
  /\ now' = now + gap
  /\ \E a \in {Analysis(landmarks, closure, now + gap, Session)} :
         /\ repCounterRef' = a.session.repCounterRef
         /\ hasReachedPeakRef' = a.session.hasReachedPeakRef
         /\ lastRepTimeRef' = a.session.lastRepTimeRef
         /\ lastStateRef' = a.session.lastStateRef
         /\ repCount' = a.session.repCount
         /\ exerciseState' = a.session.exerciseState
         /\ feedback' = a.session.feedback
         /\ isCorrectForm' = a.session.isCorrectForm
         /\ detectedArm' = IF a.outcome = "analysed" /\ a.side # closure.detectedArm
                           THEN a.side ELSE detectedArm
         /\ armAngle' = IF a.outcome = "analysed" THEN Round(a.angle) ELSE armAngle
         /\ frame' = [landmarks |-> landmarks, outcome |-> a.outcome, exercise |-> a.exercise,
                      started |-> closure.exerciseStarted,
                      side |-> a.side, points |-> a.points,
                      angle |-> a.angle,
                      counted |-> a.session.repCounterRef # repCounterRef]
  /\ UNCHANGED <<isMediaPipeLoaded, currentExercise, exerciseStarted, closure, userEvents>>

\* Pose results of the sample body, all landmarks present and well visible.
Rest      == Pose(Hanging, Hanging, Hanging, Hanging)
Stance    == Pose(Hanging, Hanging, Lowered, Hanging)
ArmRaised == Pose(Raised, Hanging, Hanging, Seated)
ArmFlexed == Pose(Flexed, Hanging, Seated, Hanging)

RepFrames == {Rest, Stance, ArmRaised, ArmFlexed}

(***************************************************************************)
(* Observer of peak visits.  It follows the analysed frames of a started   *)
(* session through  start -> peak -> (fall ->) back -> peak2  and records  *)
(* the reps counted since the frame in startingPosition that began the     *)
(* sequence (reps), the time from the first to the last frame of the       *)
(* first visit (held) and the time from the last frame of the first visit  *)
(* to the first frame of the second (apart).  Times are capped just above  *)
(* DebounceMs.  A sequence begins only when no rep was counted during the  *)
(* preceding DebounceMs, and is abandoned by any user event, by a frame    *)
(* that is not analysed and by a frame of stopped callbacks.               *)
(***************************************************************************)
Idle == [phase |-> "idle", reps |-> 0, held |-> 0, apart |-> 0, exercise |-> NULL]

Cap(ms) == Min2(ms, DebounceMs + 1)

Zone(f) ==
  IF InRange(f.angle, f.exercise.targetRanges.optimalPeak) THEN "peak"
  ELSE IF InRange(f.angle, f.exercise.targetRanges.startingPosition) THEN "start"
  ELSE "other"

\* The observer after a frame f delivered gap ms after the previous one.
Observed(v, f, gap, rested) ==
  LET n     == IF f.counted THEN 1 ELSE 0
      begin == IF rested /\ n = 0 THEN [Idle EXCEPT !.phase = "start"] ELSE Idle
  IN  IF f.outcome # "analysed" \/ ~f.started \/ f.exercise # v.exercise THEN
        (IF f.outcome = "analysed" /\ f.started /\ Zone(f) = "start"
         THEN [begin EXCEPT !.exercise = f.exercise] ELSE [Idle EXCEPT !.exercise = f.exercise])
      ELSE LET w == [begin EXCEPT !.exercise = f.exercise]
               i == [Idle EXCEPT !.exercise = f.exercise]
           IN CASE Zone(f) = "start" ->
                     (IF v.phase \in {"peak", "fall"}
                      THEN [v EXCEPT !.phase = "back", !.reps = @ + n, !.apart = Cap(@ + gap)]
                      ELSE IF v.phase = "back"
                      THEN [v EXCEPT !.reps = @ + n, !.apart = Cap(@ + gap)]
                      ELSE w)
                [] Zone(f) = "peak" ->
                     (IF v.phase = "start" THEN [v EXCEPT !.phase = "peak", !.reps = n]
                      ELSE IF v.phase = "peak"
                      THEN [v EXCEPT !.reps = @ + n, !.held = Cap(@ + gap)]
                      ELSE IF v.phase = "back"
                      THEN [v EXCEPT !.phase = "peak2", !.reps = @ + n, !.apart = Cap(@ + gap)]
                      ELSE IF v.phase = "peak2" THEN [v EXCEPT !.reps = @ + n]
                      ELSE i)
                [] OTHER ->
                     (IF v.phase = "start" THEN v
                      ELSE IF v.phase \in {"peak", "fall"}
                      THEN [v EXCEPT !.phase = "fall", !.reps = @ + n, !.apart = Cap(@ + gap)]
                      ELSE IF v.phase = "back"
                      THEN [v EXCEPT !.reps = @ + n, !.apart = Cap(@ + gap)]
                      ELSE i)

\* The observer's step, given the step of the component.
Track ==
  visit' = IF now' # now
           THEN Observed(visit, frame', now' - now, now' - lastRepTimeRef' > DebounceMs)
           ELSE IF userEvents' # userEvents THEN [Idle EXCEPT !.exercise = visit.exercise]
           ELSE visit

Observe(on) == IF on THEN Track ELSE UNCHANGED visit

\* The steps of the component with pose results drawn from `frames`, gaps between
\* them from `gaps`, and generated exercises from `exercises`; the observer of
\* peak visits runs when `observed`.
NextOn(frames, gaps, exercises, observed) ==
  \/ ScriptsLoaded /\ Observe(observed) /\ UNCHANGED <<result, form>>
  \/ RunEffect /\ Observe(observed) /\ UNCHANGED <<result, form>>
  \/ \E exerciseData \in exercises : handleExerciseGenerated(exerciseData) /\ Observe(observed) /\ UNCHANGED <<result, form>>
  \/ UseDefaultExercise /\ Observe(observed) /\ UNCHANGED <<result, form>>
  \/ handleStartExercise /\ Observe(observed) /\ UNCHANGED <<result, form>>
  \/ \E landmarks \in frames, gap \in gaps : onResults(landmarks, gap) /\ Observe(observed) /\ UNCHANGED <<result, form>>

\* Pose results for side detection, standing with the legs apart: at ease, the right
\* arm raised, the right forearm swaying a little, the right leg stepped out, and
\* results with a poorly visible left wrist or right ankle and with the left
\* shoulder missing.
Astride(leftArm, rightArm) == Pose(leftArm, rightArm, Lowered, Lowered)

AtEase       == Astride(Hanging, Hanging)
RightRaised  == Astride(Hanging, Raised)
Swaying      == Astride(Hanging, <<"Down", "DownOut">>)
RightStep    == Pose(Hanging, Hanging, Lowered, Sideways)
WristDim     == Degrade(RightRaised, {}, {15})
AnkleDim     == Degrade(RightStep, {}, {28})
ShoulderLost == Degrade(AtEase, {11}, {})

SideFrames == {AtEase, RightRaised, Swaying, RightStep, WristDim, AnkleDim, ShoulderLost}

\* The generated exercises with a given word in their name.
Named(word) == {e \in GeneratedExercises : Includes(e.exerciseName, word)}

CoreExercises == Named("front") \cup Named("leg") \cup Named("pendulum")

Next == NextOn(RepFrames, FrameGaps, CoreExercises, FALSE)

Spec == Init /\ [][Next]_vars

\* The same component with the observer of peak visits running.
NextVisits == NextOn(RepFrames, FrameGaps, Named("front") \cup Named("leg"), TRUE)

SpecVisits == Init /\ [][NextVisits]_vars

\* The same component with the pose results for side detection.
NextSides == NextOn(SideFrames, FrameGaps, Named("front"), FALSE)

SpecSides == Init /\ [][NextSides]_vars

\* Pose results for classification and form checks, standing with the legs apart:
\* the left forearm bent to an elbow angle of 135, 90 and 45 degrees, the left arm
\* held out and raised, and the bent arm with its elbow poorly visible or missing.
CurlStarted == Astride(<<"Down", "DownOut">>, Hanging)
CurlHalfway == Astride(<<"Down", "Out">>, Hanging)
Curled      == Astride(<<"Down", "UpOut">>, Hanging)
ArmOut      == Astride(Sideways, Hanging)
ArmUp       == Astride(Raised, Hanging)
ElbowDim    == Degrade(Curled, {}, {13})
ElbowLost   == Degrade(Curled, {13}, {})

FormFrames == {AtEase, CurlStarted, CurlHalfway, Curled, ArmOut, ArmUp, ElbowDim, ElbowLost}

\* The same component with the pose results for classification and form checks.
NextForm ==
  NextOn(FormFrames, {gap \in FrameGaps : gap > 500}, Named("curl") \cup Named("front"), FALSE)

SpecForm == Init /\ [][NextForm]_vars

(***************************************************************************)
(* Properties.                                                             *)
(***************************************************************************)
\* A step that delivers a pose result (only onResults reads the clock forward).
FrameStep == now' # now
\* A step of a user event handler.
UserStep == userEvents' # userEvents
\* The Stop branch of handleStartExercise.
StopStep == UserStep /\ exerciseStarted /\ feedback' = "Exercise stopped"
\* The Start branch of handleStartExercise.
StartStep == UserStep /\ ~exerciseStarted /\ exerciseStarted'
\* handleExerciseGenerated or the Use Default Exercise button.
LoadStep ==
  /\ UserStep
  /\ feedback' \in {"Exercise loaded. Click Start Exercise to begin.",
                    "Position yourself in front of the camera"}

\* The rep-counter session of the component.
Counter == <<repCounterRef, hasReachedPeakRef, lastRepTimeRef, lastStateRef>>

InPeak(f) == InRange(f.angle, f.exercise.targetRanges.optimalPeak)
InStart(f) == InRange(f.angle, f.exercise.targetRanges.startingPosition)

\* C1 (as claimed): in a started session, for a lifting, curling or leg exercise, an
\* angle sequence that rises from startingPosition into optimalPeak, stays there for
\* consecutive frames spanning more than 1000 ms and returns to startingPosition
\* adds exactly 1 to repCount.
C1_HeldPeakCountsOnce ==
  (/\ visit.phase = "back" /\ visit.held > DebounceMs
   /\ (isLiftingExercise(visit.exercise) \/ isCurlingExercise(visit.exercise)
         \/ isLegExercise(visit.exercise)))
  => visit.reps = 1

\* C2 (as claimed): two visits to optimalPeak with a return to startingPosition
\* between them add 1 to repCount in total when less than 1000 ms apart, whatever the
\* length of the second visit, and 2 when more than 1000 ms apart.  "Less than
\* 1000 ms apart" is taken at its narrowest, from the first frame of the first visit
\* to the first frame of the second; "more than 1000 ms apart" from the last frame of
\* the first visit.
C2_TwoVisits ==
  visit.phase = "peak2" =>
    /\ visit.held + visit.apart < DebounceMs => visit.reps = 1
    /\ visit.apart > DebounceMs => visit.reps = 2

C4_CountedFrame ==
  [][(FrameStep /\ repCounterRef' # repCounterRef) =>
       /\ frame'.started /\ InPeak(frame')
       /\ ~hasReachedPeakRef /\ now' - lastRepTimeRef > DebounceMs
       /\ repCounterRef' = repCounterRef + 1 /\ repCount' = repCounterRef'
       /\ hasReachedPeakRef' /\ lastRepTimeRef' = now']_vars

\* C5 (as claimed): for every exercise, whatever its name, a started frame whose angle
\* is in optimalPeak while hasReachedPeak is false and more than 1000 ms have passed
\* since lastRepTimestamp adds 1 to repCount.
C5_PeakFrameCounts ==
  [][(/\ FrameStep /\ frame'.outcome = "analysed" /\ frame'.started /\ InPeak(frame')
      /\ ~hasReachedPeakRef /\ now' - lastRepTimeRef > DebounceMs)
     => repCounterRef' = repCounterRef + 1]_vars

\* C6: except on a session reset (start, exercise loaded, use default), no step
\* decreases repCount and no step raises it by more than 1.
C6_RepCountMonotonic ==
  [][(StartStep \/ LoadStep) \/
     (/\ repCounterRef' \in {repCounterRef, repCounterRef + 1}
      /\ repCount' \in {repCount, repCount + 1})]_vars

\* C6 witness: a second rep has just been counted.
C6_Witness == repCounterRef = 2 /\ repCount = 2 /\ frame.counted

\* C7: loading an exercise (generated, or back to the default) sets repCount to 0,
\* hasReachedPeak to false and lastPhase to ready.
C7_LoadResetsSession ==
  [][LoadStep =>
       /\ repCount' = 0 /\ repCounterRef' = 0
       /\ ~hasReachedPeakRef' /\ lastStateRef' = "ready"]_vars

\* C7 witness: an exercise was loaded right after a frame that counted a rep and
\* left the counter at its peak in a moving phase.
C7_Witness ==
  /\ feedback = "Exercise loaded. Click Start Exercise to begin."
  /\ frame.counted /\ lastRepTimeRef = now /\ frame.exercise # currentExercise
  /\ repCount = 0 /\ repCounterRef = 0 /\ ~hasReachedPeakRef /\ lastStateRef = "ready"

\* C8: starting the exercise sets repCount to 0, hasReachedPeak to false, lastPhase to
\* ready and lastRepTimestamp to 0, so the debounce of an earlier attempt is over.
C8_StartResetsSession ==
  [][StartStep =>
       /\ repCount' = 0 /\ repCounterRef' = 0
       /\ ~hasReachedPeakRef' /\ lastStateRef' = "ready"
       /\ lastRepTimeRef' = 0 /\ now' - lastRepTimeRef' > DebounceMs]_vars

\* C8 witness: the exercise was restarted right after a frame of the previous
\* attempt had counted a rep.
C8_Witness ==
  /\ exerciseStarted /\ feedback = "Exercise started! Begin your movements"
  /\ frame.counted /\ frame.started /\ userEvents >= 3
  /\ repCount = 0 /\ repCounterRef = 0 /\ lastRepTimeRef = 0

\* A landmark the spec treats as missing: absent, or with visibility below 0.5.
Missing(landmarks, i) == ~Has(landmarks, i) \/ landmarks[i].visibility < Visibility.good - 4

\* The landmarks the detector of the frame's exercise reads.
Scored(f) ==
  IF getExerciseBodyPart(f.exercise) = "legs" THEN {11, 12} \cup (23..28)
  ELSE (11..16) \cup {23, 24}

\* The scores of both sides, as the detector of the frame's exercise computes them.
Scores(f) ==
  IF getExerciseBodyPart(f.exercise) = "legs"
  THEN [left |-> leftLegScore(f.landmarks), right |-> rightLegScore(f.landmarks)]
  ELSE [left |-> leftMovementScore(f.landmarks), right |-> rightMovementScore(f.landmarks)]

\* |leftScore - rightScore| / average is below the threshold of the detector.
NearEqual(f) ==
  /\ \A i \in Scored(f) : Has(f.landmarks, i)
  /\ \/ /\ getExerciseBodyPart(f.exercise) = "arms"
        /\ ~ArmScoresDiffer(Scores(f).left, Scores(f).right)
     \/ /\ getExerciseBodyPart(f.exercise) = "legs"
        /\ 20 * Abs(Scores(f).left - Scores(f).right)
              < 3 * Abs(Scores(f).left + Scores(f).right)

\* A frame that follows a frame of the same exercise on which a side was active.
FollowsFrame ==
  FrameStep /\ frame.outcome # "none" /\ frame.side \in {"left", "right"}
            /\ frame'.exercise = frame.exercise

\* C9 (as claimed): on a frame whose scores are nearly equal the detector returns the
\* side that was active on the immediately preceding frame.
C9_NearEqualKeepsSide ==
  [][(FollowsFrame /\ NearEqual(frame')) => frame'.side = frame.side]_vars

\* C10 (as claimed): when a landmark needed to score either limb is absent or has
\* visibility below 0.5, the detector returns the side that was active on the
\* preceding frame and raises no error.
C10_MissingLandmarkKeepsSide ==
  [][(FollowsFrame /\ \E i \in Scored(frame') : Missing(frame'.landmarks, i))
       => frame'.side = frame.side]_vars

\* The mirror map of the specification: 11<->12, 13<->14, 15<->16, 23<->24, 25<->26,
\* 27<->28 applied to a left-side index; every other index unchanged.
MirrorToRight(idx) == IF idx \in LeftIdx THEN idx + 1 ELSE idx

resolveIndices(indices, side) ==
  [k \in 1..Len(indices) |-> IF side = "right" THEN MirrorToRight(indices[k]) ELSE indices[k]]

\* C11 (as claimed): the points a frame's angle is computed from are the configured
\* primaryAngle.points for side left, and their mirror images under the full map for
\* side right, in the arm analysis and in the leg analysis alike.
C11_PointsMirrored ==
  (frame.outcome # "none" /\ frame.side \in {"left", "right"})
    => frame.points = resolveIndices(frame.exercise.points, frame.side)

\* The three landmarks the frame's base angle is taken from.
BasePoints(f) == {f.points[k] : k \in 1..3}

\* A landmark that is present but has visibility below 0.5.
Dim(landmarks, i) == Has(landmarks, i) /\ landmarks[i].visibility < Visibility.good - 4

\* A frame of started callbacks on which a side was determined.
StartedFrame == FrameStep /\ frame'.started /\ frame'.side \in {"left", "right"}

\* C12 (as claimed): in a started session a frame whose base-angle landmarks are all
\* present but one of which has visibility below 0.5 yields formOk = null and leaves
\* repCount and the rest of the session unchanged.
C12_DimLandmarkSkipsFrame ==
  [][(/\ StartedFrame
      /\ \A i \in BasePoints(frame') : Has(frame'.landmarks, i)
      /\ \E i \in BasePoints(frame') : Dim(frame'.landmarks, i))
     => (isCorrectForm' = "null" /\ UNCHANGED <<Counter, repCount>>)]_vars

\* C13: a frame in which one of the three resolved base-angle landmarks is absent
\* changes none of repCount, hasReachedPeak, lastRepTimestamp, lastPhase and the
\* active side.
C13_AbsentLandmarkChangesNothing ==
  [][(FrameStep /\ \E i \in BasePoints(frame') : ~Has(frame'.landmarks, i))
     => UNCHANGED <<Counter, repCount, detectedArm>>]_vars

\* C13 witness: a started session, the peak flag clear and the debounce over, has
\* received the curled arm (in optimalPeak of a curl) with its elbow missing.
C13_Witness ==
  /\ frame.outcome = "skipped" /\ frame.started /\ frame.landmarks = ElbowLost
  /\ isCurlingExercise(frame.exercise) /\ 13 \in BasePoints(frame)
  /\ ~hasReachedPeakRef /\ now - lastRepTimeRef > DebounceMs /\ repCount = 0

\* A frame of started callbacks that reached analyzeExerciseForm.
AnalysedFrame == StartedFrame /\ frame'.outcome = "analysed"

\* The phase of a frame is moving or at-peak (currentState is the gerund).
Moving(f) == Classify(f.exercise, f.angle).currentState = actionVerbGerund(f.exercise)

\* The form rules of the frame's exercise that report a violation on the frame.
Untouched == [feedbackText |-> "", formCorrect |-> "true"]

Fired(f) ==
  {k \in 1..Len(f.exercise.formChecks) :
     CheckStep(f.exercise.formChecks[k], Untouched, f.landmarks, f.side, Moving(f)) # Untouched}

FirstFired(f) == CHOOSE k \in Fired(f) : \A j \in Fired(f) : k <= j

\* C14 (as claimed): on a frame whose angle is inside optimalPeak or whose phase is
\* ready, no form rule sets formOk to false.
C14_NoFormCheckAtPeakOrRest ==
  [][(AnalysedFrame /\ (isInOptimalPeak(frame'.exercise, frame'.angle) \/ ~Moving(frame')))
     => isCorrectForm' # "false"]_vars

\* C15 (as claimed): when two or more form rules fail on a frame, the message shown
\* is the errorMessage of the first failing rule in formChecks order.
C15_FirstFailingRuleWins ==
  [][(AnalysedFrame /\ Cardinality(Fired(frame')) >= 2)
     => feedback' = frame'.exercise.formChecks[FirstFired(frame')].errorMessage]_vars

\* C16 (as claimed): after every frame of a started session formOk is false exactly
\* when a form rule failed on the frame, true when the base-angle landmarks are
\* present and no rule failed, and null when a base-angle landmark is absent.
C16_FormOkOfTheFrame ==
  [][StartedFrame =>
       isCorrectForm' = IF \E i \in BasePoints(frame') : ~Has(frame'.landmarks, i) THEN "null"
                        ELSE IF Fired(frame') # {} THEN "false" ELSE "true"]_vars

\* The conditions the form checks recognise.
KnownRules == {"wrist higher than shoulder", "elbow below shoulder", "knee alignment",
               "back straight", "Elbow moving off thigh"}

Recognised(check) == \E rule \in KnownRules : Includes(check.condition, rule)

\* C17: a form rule whose condition contains none of the known substrings performs
\* no check: formOk and the message of every analysed frame are what the recognised
\* rules of the exercise alone produce.
C17_UnknownRuleIsInert ==
  [][AnalysedFrame =>
       LET class == Classify(frame'.exercise, frame'.angle)
           known == RunFormChecks(SelectSeq(frame'.exercise.formChecks, Recognised), 1,
                                  [feedbackText |-> class.feedbackText, formCorrect |-> "true"],
                                  frame'.landmarks, frame'.side, Moving(frame'))
       IN  feedback' = known.feedbackText /\ isCorrectForm' = known.formCorrect]_vars

\* C17 witness: a moving frame of an exercise whose only rule is unrecognised, with
\* the keypoints of the rule present.
C17_Witness ==
  /\ frame.outcome = "analysed" /\ frame.started /\ Moving(frame)
  /\ ~isInOptimalPeak(frame.exercise, frame.angle)
  /\ Len(frame.exercise.formChecks) = 1 /\ ~Recognised(frame.exercise.formChecks[1])
  /\ \A k \in 1..2 : Has(frame.landmarks, frame.exercise.formChecks[1].keypoints[k])
  /\ isCorrectForm = "true" /\ feedback = "Keep going!"

(***************************************************************************)
(* Exercises whose names fall in more than one of the categories           *)
(* analyzeExerciseForm derives from the name.                              *)
(***************************************************************************)
RawMixedExercises ==
  { [exerciseName    |-> {"leg", "curl"},
     targetKeypoints |-> <<23, 25, 27>>,
     points          |-> <<23, 25, 27>>,
     targetRanges    |-> Ranges(<<160, 180>>, <<30, 90>>, <<30, 60>>),
     formChecks      |-> << >>,
     repThresholds   |-> Thresholds(120, 150, 170)],
    [exerciseName    |-> {"elbow", "flexion", "bicep", "curl"},
     targetKeypoints |-> <<11, 13, 15>>,
     points          |-> <<11, 13, 15>>,
     targetRanges    |-> Ranges(<<150, 180>>, <<30, 90>>, <<30, 70>>),
     formChecks      |-> << >>,
     repThresholds   |-> Thresholds(120, 150, 170)] }

MixedExercises == {validateAndCorrectExercise(raw) : raw \in RawMixedExercises}

PhaseFrames == {AtEase, CurlStarted, CurlHalfway, Curled, ArmOut, ArmUp}

NextPhase ==
  NextOn(PhaseFrames, {gap \in FrameGaps : gap > 500},
         MixedExercises \cup Named("front") \cup Named("bicep"), FALSE)

SpecPhase == Init /\ [][NextPhase]_vars

\* C18 (as claimed): for an exercise whose name contains abduction, flexion, raise or
\* extension, a frame inside optimalPeak or, failing that, with angle > liftingMin is
\* in the exercise's movement state, and any other frame with angle <= restMax is ready.
C18_ExtensionPhases ==
  [][(AnalysedFrame /\ isLiftingExercise(frame'.exercise)) =>
       LET exercise == frame'.exercise
           angle    == frame'.angle
       IN  IF InPeak(frame') \/ angle > exercise.repThresholds.liftingMin
           THEN lastStateRef' = actionVerbGerund(exercise)
           ELSE angle <= exercise.repThresholds.restMax => lastStateRef' = "ready"]_vars

\* C19 (as claimed): for an exercise whose name contains curl or bicep, a frame inside
\* optimalPeak or, failing that, with angle < liftingMin is in the exercise's movement
\* state, and any other frame with angle >= restMax is ready.
C19_FlexionPhases ==
  [][(AnalysedFrame /\ isCurlingExercise(frame'.exercise)) =>
       LET exercise == frame'.exercise
           angle    == frame'.angle
       IN  IF InPeak(frame') \/ angle < exercise.repThresholds.liftingMin
           THEN lastStateRef' = actionVerbGerund(exercise)
           ELSE angle >= exercise.repThresholds.restMax => lastStateRef' = "ready"]_vars

\* The regions of C18 and C19 for the category the state name of the exercise shows.
InRegions(f) ==
  LET t == f.exercise.repThresholds
  IN  \/ InPeak(f)
      \/ IF actionVerbGerund(f.exercise) = "curling"
         THEN f.angle < t.liftingMin \/ f.angle >= t.restMax
         ELSE f.angle > t.liftingMin \/ f.angle <= t.restMax

\* C20 (as claimed): a frame of a started session whose angle lies in none of the
\* at-peak, moving and ready regions is classified as moving.
C20_GapIsMoving ==
  [][(AnalysedFrame /\ ~InRegions(frame')) => lastStateRef' = actionVerbGerund(frame'.exercise)]_vars

(***************************************************************************)
(* A lifting exercise with optimalPeak [160,180] and liftingMin 90, and    *)
(* frames that take the shoulder angle through 0, 45, 135 and 180.         *)
(***************************************************************************)
RawRaiseExercises ==
  { [exerciseName    |-> {"lateral", "raise"},
     targetKeypoints |-> <<11, 13, 15>>,
     points          |-> <<23, 11, 13>>,
     targetRanges    |-> Ranges(<<0, 45>>, <<90, 180>>, <<160, 180>>),
     formChecks      |-> << >>,
     repThresholds   |-> Thresholds(90, 120, 150)] }

RaiseExercises == {validateAndCorrectExercise(raw) : raw \in RawRaiseExercises}

ArmLow  == Astride(Lowered, Hanging)
ArmHigh == Astride(<<"UpOut", "UpOut">>, Hanging)

RaiseFrames == {AtEase, ArmLow, ArmHigh, ArmUp}

NextRaise == NextOn(RaiseFrames, FrameGaps, RaiseExercises, TRUE)

SpecRaise == Init /\ [][NextRaise]_vars

\* The configuration of the scenario of C21.
ScenarioConfig(exercise) ==
  /\ isLiftingExercise(exercise) /\ ~isCurlingExercise(exercise) /\ ~isLegExercise(exercise)
  /\ exercise.targetRanges.optimalPeak = <<Deg(160), Deg(180)>>
  /\ exercise.repThresholds.liftingMin = Deg(90)

\* The phase the scenario expects of a frame.
ScenarioPhase(f) ==
  IF InPeak(f) THEN "at-peak"
  ELSE IF f.angle > f.exercise.repThresholds.liftingMin THEN "moving" ELSE "ready"

\* C21 (as claimed): with optimalPeak [160,180] and liftingMin 90, the frames of the
\* sequence ready, moving, at-peak (held over 1000 ms), moving, ready are reported
\* with those phases, at-peak being a phase other than moving, and the sequence
\* counts one rep: a ready frame reports ready, a frame that is not ready reports
\* another phase, the phase reported changes between a moving frame and an at-peak
\* frame, and the held visit to the peak has counted 1 when the angle is back at rest.
C21_RaiseScenario ==
  [][(AnalysedFrame /\ ScenarioConfig(frame'.exercise)) =>
       /\ (ScenarioPhase(frame') = "ready") <=> (lastStateRef' = "ready")
       /\ (/\ frame.outcome = "analysed" /\ frame.started /\ frame.exercise = frame'.exercise
           /\ {ScenarioPhase(frame), ScenarioPhase(frame')} = {"moving", "at-peak"})
          => lastStateRef' # lastStateRef
       /\ (visit'.phase = "back" /\ visit'.held > DebounceMs) => visit'.reps = 1]_vars

(***************************************************************************)
(* The recommendation route and the form that calls it.  Generated data    *)
(* (rawData) is a record that has a field exactly when the parsed JSON     *)
(* has the key; `points` stands for angleCalculations.primaryAngle.points  *)
(* and is missing when angleCalculations is.                               *)
(***************************************************************************)
\* The ranges POST substitutes when targetRanges has no startingPosition.
FallbackRanges == Ranges(<<0, 45>>, <<90, 180>>, <<170, 180>>)

\* normalizedData of POST (a key copied from a missing key stays missing).
normalizedData(rawData) ==
  IF "startingPosition" \in DOMAIN rawData.targetRanges
  THEN rawData ELSE [rawData EXCEPT !.targetRanges = FallbackRanges]

\* The repThresholds that reach the ordering test of validateAndCorrectExercise.
TemplatedThresholds(rawData) ==
  IF SelectTemplate(rawData.exerciseName) # NULL
  THEN SelectTemplate(rawData.exerciseName).repThresholds ELSE rawData.repThresholds

\* Whether normalisation or validateAndCorrectExercise throws a TypeError on rawData.
Throws(rawData) ==
  \/ "targetRanges" \notin DOMAIN rawData
  \/ "exerciseName" \notin DOMAIN rawData
  \/ SelectTemplate(rawData.exerciseName) # NULL /\ "points" \notin DOMAIN rawData
  \/ SelectTemplate(rawData.exerciseName) = NULL /\ "repThresholds" \notin DOMAIN rawData

\* POST /api/exercise-recommendation answers the form's fetch, Gemini having
\* generated rawData.
POST(rawData) ==
  /\ form.awaiting
  /\ result = NULL
  /\ userEvents < MaxUserEvents
  /\ result' = IF Throws(rawData) THEN [success |-> FALSE]
               ELSE [success |-> TRUE,
                     data    |-> validateAndCorrectExercise(normalizedData(rawData))]
  /\ UNCHANGED <<feedback, exerciseState, repCount, armAngle, isCorrectForm,
                 isMediaPipeLoaded, currentExercise, detectedArm, exerciseStarted,
                 repCounterRef, lastStateRef, hasReachedPeakRef, lastRepTimeRef,
                 closure, now, userEvents, frame, visit, form>>

\* The fetch of handleSubmit rejects (network error).
FetchFails ==
  /\ form.awaiting
  /\ result = NULL
  /\ result' = [success |-> FALSE, rejected |-> TRUE]
  /\ UNCHANGED <<feedback, exerciseState, repCount, armAngle, isCorrectForm,
                 isMediaPipeLoaded, currentExercise, detectedArm, exerciseStarted,
                 repCounterRef, lastStateRef, hasReachedPeakRef, lastRepTimeRef,
                 closure, now, userEvents, frame, visit, form>>

\* onClick of the "Get Personalized Exercise" button: setShowProfileForm(true) mounts
\* a new UserProfileForm.
OpenForm ==
  /\ ~form.open
  /\ form' = [NoForm EXCEPT !.open = TRUE, !.awaiting = form.awaiting]
  /\ UNCHANGED <<feedback, exerciseState, repCount, armAngle, isCorrectForm,
                 isMediaPipeLoaded, currentExercise, detectedArm, exerciseStarted,
                 repCounterRef, lastStateRef, hasReachedPeakRef, lastRepTimeRef,
                 closure, now, userEvents, frame, visit, result>>

\* onClose from the form's close and Cancel buttons: setShowProfileForm(false).
onClose ==
  /\ form.open
  /\ form' = [NoForm EXCEPT !.awaiting = form.awaiting]
  /\ UNCHANGED <<feedback, exerciseState, repCount, armAngle, isCorrectForm,
                 isMediaPipeLoaded, currentExercise, detectedArm, exerciseStarted,
                 repCounterRef, lastStateRef, hasReachedPeakRef, lastRepTimeRef,
                 closure, now, userEvents, frame, visit, result>>

\* handleSubmit of the recommendation form up to `await fetch`; the submit button is
\* disabled while isLoading.  One request is awaited at a time.
handleSubmitBegin ==
  /\ form.open /\ ~form.isLoading /\ ~form.awaiting
  /\ form' = [open |-> TRUE, isLoading |-> TRUE, error |-> "null",
              awaiting |-> TRUE, submitted |-> TRUE]
  /\ UNCHANGED <<feedback, exerciseState, repCount, armAngle, isCorrectForm,
                 isMediaPipeLoaded, currentExercise, detectedArm, exerciseStarted,
                 repCounterRef, lastStateRef, hasReachedPeakRef, lastRepTimeRef,
                 closure, now, userEvents, frame, visit, result>>

\* The form after the awaited request has failed: setError and, in the finally
\* block, setIsLoading(false); without effect when the form that submitted is gone.
Failed(error) ==
  IF form.submitted
  THEN [form EXCEPT !.error = error, !.isLoading = FALSE, !.awaiting = FALSE]
  ELSE [form EXCEPT !.awaiting = FALSE]

\* Variant of handleSubmit without the finally block when the request has failed.
handleSubmitKeepsLoading ==
  /\ result # NULL
  /\ result' = NULL
  /\ IF result.success
     THEN /\ handleExerciseGenerated(result.data)
          /\ form' = NoForm
     ELSE /\ form' = [Failed("Failed to generate exercise recommendation") EXCEPT
                        !.isLoading = form.isLoading]
          /\ UNCHANGED <<feedback, exerciseState, repCount, armAngle, isCorrectForm,
                         isMediaPipeLoaded, currentExercise, detectedArm, exerciseStarted,
                         repCounterRef, lastStateRef, hasReachedPeakRef, lastRepTimeRef,
                         closure, now, userEvents, frame>>
  /\ UNCHANGED visit

\* handleSubmit of the recommendation form, from `await response.json()` on (the
\* catch block when the fetch was rejected).
handleSubmit ==
  /\ result # NULL
  /\ result' = NULL
  /\ IF result.success
     THEN /\ handleExerciseGenerated(result.data)
          /\ form' = NoForm
     ELSE /\ form' = IF "rejected" \in DOMAIN result
                     THEN Failed("Network error. Please try again.")
                     ELSE Failed("Failed to generate exercise recommendation")
          /\ UNCHANGED <<feedback, exerciseState, repCount, armAngle, isCorrectForm,
                         isMediaPipeLoaded, currentExercise, detectedArm, exerciseStarted,
                         repCounterRef, lastStateRef, hasReachedPeakRef, lastRepTimeRef,
                         closure, now, userEvents, frame>>
  /\ UNCHANGED visit

\* Keys of the generated object the pipeline needs.
RequiredFields == {"exerciseName", "points", "targetRanges", "formChecks", "repThresholds"}

Whole(name, thresholds) ==
  [exerciseName    |-> name,
   targetKeypoints |-> <<11, 13, 15>>,
   points          |-> <<23, 11, 13>>,
   targetRanges    |-> Ranges(<<0, 45>>, <<90, 180>>, <<160, 180>>),
   formChecks      |-> << >>,
   repThresholds   |-> thresholds]

Without(data, field) == [f \in DOMAIN data \ {field} |-> data[f]]

ThresholdValues == {30, 60, 90, 120}

\* What Gemini may generate: every ordering of three distinct thresholds under a name
\* no template matches, and objects lacking one key under that name and under a
\* name the shoulderAbduction template matches.
GeneratedData ==
  {Whole({"lateral", "raise"}, Thresholds(t[1], t[2], t[3])) :
     t \in {u \in ThresholdValues \X ThresholdValues \X ThresholdValues :
              u[1] # u[2] /\ u[2] # u[3] /\ u[1] # u[3]}}
  \cup {Without(Whole(name, Thresholds(30, 60, 90)), field) :
          name \in {{"lateral", "raise"}, {"shoulder", "abduction"}}, field \in RequiredFields}
  \cup {Whole({"shoulder", "abduction"}, Thresholds(30, 60, 90)),
        [Whole({"lateral", "raise"}, Thresholds(30, 60, 90)) EXCEPT
           !.targetRanges = Without(@, "startingPosition")]}

\* The form and the buttons of the page before the MediaPipe scripts have loaded.
NextLoad ==
  \/ OpenForm
  \/ handleSubmitBegin
  \/ \E rawData \in GeneratedData : POST(rawData)
  \/ handleSubmit
  \/ UseDefaultExercise /\ UNCHANGED <<visit, result, form>>
  \/ handleStartExercise /\ UNCHANGED <<visit, result, form>>

SpecLoad == Init /\ [][NextLoad]_vars

Ascending(t) == t.liftingMin < t.loweringMax /\ t.loweringMax < t.restMax

Sorted(t) ==
  LET lo == Min2(t.liftingMin, Min2(t.loweringMax, t.restMax))
      hi == Max2(t.liftingMin, Max2(t.loweringMax, t.restMax))
  IN  [liftingMin |-> lo, loweringMax |-> t.liftingMin + t.loweringMax + t.restMax - lo - hi,
       restMax |-> hi]

\* C22 (as claimed): thresholds that are not strictly ascending are replaced by the
\* same three values sorted ascending, for every ordering of the inputs.
C22_ThresholdsSorted ==
  [][\A rawData \in GeneratedData :
       (POST(rawData) /\ ~Throws(rawData) /\ ~Ascending(TemplatedThresholds(rawData)))
         => result'.data.repThresholds = Sorted(TemplatedThresholds(rawData))]_vars

\* C23 (as claimed): every configuration validateAndCorrectExercise returns has
\* liftingMin < loweringMax < restMax.
C23_ReturnedThresholdsAscend ==
  (result # NULL /\ result.success) => Ascending(result.data.repThresholds)

\* C24 (as claimed): a generated configuration lacking a required structural field
\* never becomes the current exercise.
C24_OnlyWholeConfigsLoad ==
  currentExercise # NULL => RequiredFields \subseteq DOMAIN currentExercise

\* C30 (as claimed): the configuration every frame is analysed with, generated or
\* default, has liftingMin < loweringMax < restMax.
C30_FrameThresholdsAscend ==
  frame.outcome # "none" => Ascending(frame.exercise.repThresholds)

\* Pose results with the arm raised that lack one landmark, or all of them.
LostFrames ==
  {ArmUp, Degrade(ArmUp, LandmarkIdx, {})} \cup {Degrade(ArmUp, {i}, {}) : i \in LandmarkIdx}

NextLost == NextOn(LostFrames, {gap \in FrameGaps : gap > 500}, Named("front"), FALSE)

SpecLost == Init /\ [][NextLost]_vars

\* What the page shows of the analysis.
Shown == <<armAngle, detectedArm, exerciseState, repCount, isCorrectForm, feedback>>

WellFormed ==
  /\ armAngle \in 0..180
  /\ detectedArm \in {"left", "right"}
  /\ exerciseState \in {"ready", "lifting", "curling", "squatting", "lunging"}
  /\ repCount \in Nat /\ repCount = repCounterRef
  /\ isCorrectForm \in {"null", "true", "false"}
  /\ feedback \in STRING

Offsets == {-3, -1, 0, 2} \X {-3, -1, 0, 2}

Triangle(a, c) ==
  [i \in LandmarkIdx |->
     IF i = 11 THEN Pt(Body.midX, Body.shoulderY)
     ELSE IF i = 23 THEN Pt(Body.midX + a[1], Body.shoulderY + a[2])
     ELSE IF i = 13 THEN Pt(Body.midX + c[1], Body.shoulderY + c[2])
     ELSE [Pt(0, 0) EXCEPT !.present = FALSE]]

AngleFrames == {Triangle(a, c) : a \in Offsets, c \in Offsets}

NextAngles ==
  \/ ScriptsLoaded /\ UNCHANGED <<visit, result, form>>
  \/ RunEffect /\ UNCHANGED <<visit, result, form>>
  \/ \E landmarks \in AngleFrames, gap \in FrameGaps :
       onResults(landmarks, gap) /\ UNCHANGED <<visit, result, form>>

SpecAngles == Init /\ [][NextAngles]_vars

\* The three points the angle of the last frame was computed from.
Outer1 == frame.landmarks[frame.points[1]]
Vertex == frame.landmarks[frame.points[2]]
Outer2 == frame.landmarks[frame.points[3]]

\* The difference of the two atan2 directions, before Math.abs.
Turn == Atan2(Outer2.y - Vertex.y, Outer2.x - Vertex.x)
          - Atan2(Outer1.y - Vertex.y, Outer1.x - Vertex.x)

\* C26: calculateAngle gives the same angle with its outer points exchanged.
C26_AngleSymmetric ==
  frame.outcome = "analysed"
    => /\ frame.angle = calculateAngle(Outer1, Vertex, Outer2)
       /\ frame.angle = calculateAngle(Outer2, Vertex, Outer1)

\* C26 witness: an angle computed from a negative difference of directions, other
\* than 0 and 180.
C26_Witness ==
  /\ frame.outcome = "analysed" /\ Turn < 0
  /\ frame.angle \notin {0, Deg(180)} /\ Outer1 # Outer2

\* C27: the angle calculateAngle returns lies in [0, 180].
C27_AngleInRange ==
  frame.outcome = "analysed" => (frame.angle >= 0 /\ frame.angle <= Deg(180))

\* C27 witness: the two directions differ by more than 180 and the angle was reflected.
C27_Witness ==
  /\ frame.outcome = "analysed" /\ Abs(Turn) > Deg(180)
  /\ frame.angle = Deg(360) - Abs(Turn)

\* C28 (as claimed): in a started session hasReachedPeak, once set by a counted rep,
\* is cleared only by a frame whose angle is inside startingPosition, and between the
\* first frame inside optimalPeak and the return to startingPosition no more than
\* one rep is counted.
C28_RearmedOnlyAtStart ==
  [][AnalysedFrame =>
       /\ ((hasReachedPeakRef \/ frame'.counted) /\ ~hasReachedPeakRef') => InStart(frame')
       /\ visit'.phase \in {"peak", "fall"} => visit'.reps <= 1]_vars

(***************************************************************************)
(* Pose results for the side detectors, with scores of either sign.  A     *)
(* slack arm hangs 20 degrees off the trunk (score below 0); a leg with    *)
(* the thigh straight down scores below 0.  The session is never started.  *)
(***************************************************************************)
SlackArm(pose, side, drop) ==
  LET shoulder == IF side = "left" THEN 11 ELSE 12
      sx       == IF side = "left" THEN 1 ELSE -1
      elbow    == Pt(pose[shoulder].x + sx * 4, pose[shoulder].y + 11)
  IN  [pose EXCEPT ![shoulder + 2] = elbow, ![shoulder + 4] = Pt(elbow.x, elbow.y + drop)]

ArmScoreFrames ==
  {Astride(l, r) : l \in {Hanging, Raised}, r \in {Hanging, Raised}}
  \cup {SlackArm(SlackArm(AtEase, "left", dl), "right", dr) : dl \in {1, 8}, dr \in {1, 8}}
  \cup {SlackArm(Astride(Hanging, Raised), "left", 1), SlackArm(Astride(Raised, Hanging), "right", 1)}

LegScoreFrames ==
  {Pose(Hanging, Hanging, l, r) :
     l \in {Hanging, <<"Down", "Out">>, Lowered, Sideways},
     r \in {Hanging, <<"Down", "Out">>, Lowered, Sideways}}

ScoreFrames == ArmScoreFrames \cup LegScoreFrames

NextScores ==
  \/ ScriptsLoaded /\ UNCHANGED <<visit, result, form>>
  \/ RunEffect /\ UNCHANGED <<visit, result, form>>
  \/ \E exerciseData \in Named("front") :
       handleExerciseGenerated(exerciseData) /\ UNCHANGED <<visit, result, form>>
  \/ \E landmarks \in ScoreFrames, gap \in FrameGaps :
       onResults(landmarks, gap) /\ UNCHANGED <<visit, result, form>>

SpecScores == Init /\ [][NextScores]_vars

\* The score of `side` exceeds the other's by more than the detector's threshold
\* (0.15 of the average for arms, 0.3 for legs), the average taken in absolute value.
Exceeds(f, side) ==
  LET mine  == IF side = "left" THEN Scores(f).left ELSE Scores(f).right
      other == IF side = "left" THEN Scores(f).right ELSE Scores(f).left
  IN  /\ mine > other
      /\ IF getExerciseBodyPart(f.exercise) = "arms"
         THEN 40 * (mine - other) > 3 * Abs(mine + other)
         ELSE 20 * (mine - other) > 3 * Abs(mine + other)

\* C29: with every landmark of both sides present, a frame on which one side's score
\* exceeds the other's by more than the threshold is given the higher-scoring side,
\* by the arm detector and by the leg detector, whatever the signs of the scores.
C29_HigherScoreWins ==
  (frame.outcome # "none" /\ \A i \in LandmarkIdx : Has(frame.landmarks, i))
    => \A side \in {"left", "right"} : Exceeds(frame, side) => frame.side = side

\* C29 witness: the arm detector returned the right side, the higher of two scores
\* below 0, while the effect had captured the left side.
C29_Witness ==
  /\ frame.outcome # "none" /\ getExerciseBodyPart(frame.exercise) = "arms"
  /\ \A i \in LandmarkIdx : Has(frame.landmarks, i)
  /\ Scores(frame).left < 0 /\ Scores(frame).right < 0
  /\ Exceeds(frame, "right") /\ frame.side = "right" /\ closure.detectedArm = "left"

\* The indices a configuration names: primaryAngle.points and the keypoints of its
\* form checks.
ConfiguredIndices(exercise) ==
  {exercise.points[k] : k \in 1..3}
  \cup UNION {{exercise.formChecks[c].keypoints[k] : k \in 1..Len(exercise.formChecks[c].keypoints)} :
               c \in 1..Len(exercise.formChecks)}

\* C31 (as claimed): the configuration of every frame, template-corrected ones
\* included, names only left-side landmarks (11, 13, 15, 23, 25, 27), so that on a
\* frame whose active side is left the angle is measured on left-side landmarks.
C31_LeftSideIndices ==
  frame.outcome # "none" =>
    /\ ConfiguredIndices(frame.exercise) \subseteq LeftIdx
    /\ frame.side = "left" => BasePoints(frame) \subseteq LeftIdx

\* The geometric test the specification pairs with a rule, on the landmarks of the
\* active side: wrist.y < shoulder.y - 0.1, elbow.y > shoulder.y + 0.05,
\* |knee.x - ankle.x| > 0.1, |shoulder.x - hip.x| > 0.15 (grid units of 0.05).
GeometricTest(check, landmarks, side) ==
  LET at(idx) == landmarks[IF side = "left" THEN idx ELSE idx + 1]
  IN  \/ /\ Includes(check.condition, "wrist higher than shoulder")
         /\ at(15).y < at(11).y - 2
      \/ /\ Includes(check.condition, "elbow below shoulder")
         /\ at(13).y > at(11).y + 1
      \/ /\ Includes(check.condition, "knee alignment")
         /\ Abs(at(25).x - at(27).x) > 2
      \/ /\ Includes(check.condition, "back straight")
         /\ Abs(at(11).x - at(23).x) > 3

\* C32 (as claimed): a recognised form rule reports a violation on a frame only if
\* its geometric test over the landmarks of the active side fails on that frame.
C32_ViolationHasGeometry ==
  [][AnalysedFrame =>
       \A k \in Fired(frame') :
         GeometricTest(frame'.exercise.formChecks[k], frame'.landmarks, frame'.side)]_vars

\* C33: while a generated exercise is loaded and the exercise is started, a frame
\* analysed by started callbacks is classified, counted and form-checked with the
\* loaded exercise: the session after the frame is what analyzeExerciseForm makes of
\* the frame under currentExercise.
C33_LoadedExerciseIsUsed ==
  [][(AnalysedFrame /\ exerciseStarted /\ currentExercise # NULL) =>
       /\ frame'.exercise = currentExercise
       /\ Session' = Analyzed(frame'.angle, frame'.landmarks, currentExercise, frame'.side,
                              now', Session)]_vars

\* C33 witness: after three user events (a load is followed by a start) a started
\* frame has counted a rep under the loaded exercise, whose optimalPeak differs from
\* the default's.
C33_Witness ==
  /\ exerciseStarted /\ currentExercise # NULL /\ userEvents >= 3
  /\ frame.outcome = "analysed" /\ frame.started /\ frame.counted
  /\ frame.exercise = currentExercise
  /\ ~isInOptimalPeak(defaultExercise, frame.angle)

\* C34 (as claimed): after every frame whose base-angle landmarks are present, the
\* side shown to the user (detectedArm) is the side whose landmarks gave the frame's
\* angle and form checks.
C34_ShownSideIsUsedSide ==
  [][(FrameStep /\ frame'.outcome = "analysed") => detectedArm' = frame'.side]_vars

\* The vertex of the exercise's primary angle is a shoulder or an elbow / a hip or a knee.
TracksArm(exercise) == exercise.points[2] \in 11..14
TracksLeg(exercise) == exercise.points[2] \in 23..26

\* C35 (as claimed): a frame of an exercise whose primary angle is an arm angle gets
\* its side from the arm scorer and its points from the arm map; a frame of an
\* exercise tracking a leg gets them from the leg scorer and the leg map.
C35_ArmAngleUsesArmAnalysis ==
  [][FrameStep =>
       /\ TracksArm(frame'.exercise) =>
            /\ frame'.side = detectActiveArm(frame'.landmarks, closure.detectedArm)
            /\ frame'.points = adjustedPoints(frame'.exercise, frame'.side, "arms")
       /\ TracksLeg(frame'.exercise) =>
            /\ frame'.side = detectActiveLeg(frame'.landmarks, closure.detectedArm)
            /\ frame'.points = adjustedPoints(frame'.exercise, frame'.side, "legs")]_vars

\* The configuration in force: the loaded exercise, or the default.
CurrentConfig == IF currentExercise # NULL THEN currentExercise ELSE defaultExercise

\* C36 (as claimed): a load leaves exerciseStarted false; a frame that increments
\* repCount does not directly follow a load (a Start lies between) and counts under
\* the most recently loaded configuration.
C36_RepsFollowStartAfterLoad ==
  [][/\ LoadStep => ~exerciseStarted'
     /\ (FrameStep /\ repCounterRef' # repCounterRef) =>
          /\ feedback # "Exercise loaded. Click Start Exercise to begin."
          /\ frame'.exercise = CurrentConfig]_vars

\* C37 (as claimed): the Stop handler leaves repCount alone, and a frame delivered
\* after it, while the exercise is still stopped, does not increment it.
C37_StoppedCountIsFrozen ==
  [][/\ StopStep => UNCHANGED <<repCount, repCounterRef>>
     /\ (FrameStep /\ ~exerciseStarted /\ feedback = "Exercise stopped") =>
          UNCHANGED <<repCount, repCounterRef>>]_vars

(***************************************************************************)
(* The page with its recommendation form: the form is opened, submitted    *)
(* and closed while the exercise is started, stopped and pose results      *)
(* arrive.  Gemini generates a whole configuration or one without          *)
(* targetRanges (the route answers success: false), or the fetch rejects.  *)
(***************************************************************************)
SubmitData ==
  {Whole({"lateral", "raise"}, Thresholds(30, 60, 90)),
   Without(Whole({"lateral", "raise"}, Thresholds(30, 60, 90)), "targetRanges")}

SubmitFrames == {AtEase, ArmOut, ArmUp}

NextSubmit ==
  \/ ScriptsLoaded /\ UNCHANGED <<visit, result, form>>
  \/ RunEffect /\ UNCHANGED <<visit, result, form>>
  \/ handleStartExercise /\ UNCHANGED <<visit, result, form>>
  \/ \E landmarks \in SubmitFrames, gap \in {gap \in FrameGaps : gap > 500} :
       onResults(landmarks, gap) /\ UNCHANGED <<visit, result, form>>
  \/ OpenForm
  \/ onClose
  \/ handleSubmitBegin
  \/ \E rawData \in SubmitData : POST(rawData)
  \/ FetchFails
  \/ handleSubmit

SpecSubmit == Init /\ [][NextSubmit]_vars

\* The step of handleSubmit that follows a failed request.
FailedStep == result # NULL /\ ~result.success /\ result' = NULL

\* C38: when the request has failed, the form that submitted it shows an error, is
\* no longer loading and stays open, and onExerciseGenerated is not called: the
\* current exercise, exerciseStarted, the rep-counter session and repCount are
\* unchanged.
C38_FailedRequestChangesNothing ==
  [][FailedStep =>
       /\ form.submitted => (form'.open /\ form'.error # "null" /\ ~form'.isLoading)
       /\ UNCHANGED <<currentExercise, exerciseStarted, Counter, repCount, closure>>]_vars

\* C38 witness: with a generated exercise started and a rep counted, a second
\* request was rejected: the form is open with the network error, not loading.
C38_Witness ==
  /\ form.open /\ form.submitted /\ ~form.isLoading /\ ~form.awaiting
  /\ form.error = "Network error. Please try again."
  /\ result = NULL /\ currentExercise # NULL /\ exerciseStarted /\ repCount >= 1
====
